---- MODULE Spec2Model ----
(***************************************************************************)
(* Model of src/app.js: the browser controller of a 5-joint robotic arm    *)
(* over a BLE serial link.                                                 *)
(*                                                                         *)
(* JavaScript runs every handler to its next await, so one action of the   *)
(* model is one such run: a click or key handler up to its first await, a  *)
(* promise continuation (a write or a connect step that resolved or        *)
(* rejected), or a timer callback, each up to the next await.              *)
(*                                                                         *)
(* A handle (device, server, service, rxCharacteristic) is TRUE when the   *)
(* variable holds an object and FALSE when it is null.                     *)
(*                                                                         *)
(* Pending continuations are not ordered against each other: any write in  *)
(* flight may settle and any timer may fire next. A GATT request (a write, *)
(* a connect step) resolves on a live link only; once the link is down it  *)
(* can only reject.                                                        *)
(***************************************************************************)
EXTENDS Integers, Sequences, FiniteSets

(* ---------------------------------------------------------------------- *)
(* Bounds of the model                                                     *)
(* ---------------------------------------------------------------------- *)

\* what the user and the environment may spend in one behaviour: a connect
\* click and a loss of the link cost one unit each; a joint button, a key,
\* a preset and a write rejected on a live link cost two each
Budget == 5

\* tokens applied in one behaviour of SpecApply
MaxApply == 1

\* decrements of base counted in one behaviour of SpecDec
MaxDecs == 12

\* SpecApply and SpecDec start each joint within Margin steps of one of its
\* limits, or at its initial angle
Margin == 1

(* ---------------------------------------------------------------------- *)
(* Static data                                                             *)
(* ---------------------------------------------------------------------- *)

Joints == {"base", "shoulder", "elbow", "wrist", "gripper"}

InitialAngles ==
    [j \in Joints |-> IF j = "shoulder" THEN 130 ELSE 90]

Tokens == {"A", "B", "C", "D", "E", "F", "G", "H", "I", "J"}

\* the data-command values the joint buttons are drawn from: the attribute
\* may hold any string; "A" stands for the tokens and "Z" for the strings
\* commandMap does not hold
ButtonCommands == {"A", "Z"}

\* the keys of keyMap, and the token each maps to
KeyMap ==
    [k \in {"a", "A", "b", "B", "c", "C", "d", "D", "e", "E",
            "f", "F", "g", "G", "h", "H", "i", "I", "j", "J"} |->
        CASE k \in {"a", "A"} -> "A"
          [] k \in {"b", "B"} -> "B"
          [] k \in {"c", "C"} -> "C"
          [] k \in {"d", "D"} -> "D"
          [] k \in {"e", "E"} -> "E"
          [] k \in {"f", "F"} -> "F"
          [] k \in {"g", "G"} -> "G"
          [] k \in {"h", "H"} -> "H"
          [] k \in {"i", "I"} -> "I"
          [] k \in {"j", "J"} -> "J"]

\* the keys a keydown event is drawn from: "b" stands for the keys of
\* keyMap and "z" for the keys it does not hold
Keys == {"b", "z"}

stepSize == 10

Min(a, b) == IF a < b THEN a ELSE b

\* Math.max left out: the decrement is not clamped
MaxUnclamped(a, b) == a

Max(a, b) == IF a > b THEN a ELSE b

\* updateAngleDisplay(joint, angle): jointAngles[joint] = angle
updateAngleDisplay(angles, joint, angle) ==
    [angles EXCEPT ![joint] = angle]

\* the switch with case 'D' copied from case 'B': the shoulder is clamped
\* at 0, not at 120
updateLocalAngleShoulderFloor0(angles, command) ==
    CASE command = "A" ->
           updateAngleDisplay(angles, "base", Min(angles["base"] + stepSize, 180))
      [] command = "B" ->
           updateAngleDisplay(angles, "base", Max(angles["base"] - stepSize, 0))
      [] command = "C" ->
           updateAngleDisplay(angles, "shoulder", Min(angles["shoulder"] + stepSize, 210))
      [] command = "D" ->
           updateAngleDisplay(angles, "shoulder", Max(angles["shoulder"] - stepSize, 0))
      [] command = "E" ->
           updateAngleDisplay(angles, "elbow", Min(angles["elbow"] + stepSize, 180))
      [] command = "F" ->
           updateAngleDisplay(angles, "elbow", Max(angles["elbow"] - stepSize, 0))
      [] command = "G" ->
           updateAngleDisplay(angles, "wrist", Min(angles["wrist"] + stepSize, 180))
      [] command = "H" ->
           updateAngleDisplay(angles, "wrist", Max(angles["wrist"] - stepSize, 0))
      [] command = "I" ->
           updateAngleDisplay(angles, "gripper", Min(angles["gripper"] + stepSize, 180))
      [] command = "J" ->
           updateAngleDisplay(angles, "gripper", Max(angles["gripper"] - stepSize, 0))
      [] OTHER -> angles

\* updateLocalAngle(command): the switch over the ten tokens; any other
\* command falls through the switch and changes nothing
updateLocalAngle(angles, command) ==
    CASE command = "A" ->
           updateAngleDisplay(angles, "base", Min(angles["base"] + stepSize, 180))
      [] command = "B" ->
           updateAngleDisplay(angles, "base", Max(angles["base"] - stepSize, 0))
      [] command = "C" ->
           updateAngleDisplay(angles, "shoulder", Min(angles["shoulder"] + stepSize, 210))
      [] command = "D" ->
           updateAngleDisplay(angles, "shoulder", Max(angles["shoulder"] - stepSize, 120))
      [] command = "E" ->
           updateAngleDisplay(angles, "elbow", Min(angles["elbow"] + stepSize, 180))
      [] command = "F" ->
           updateAngleDisplay(angles, "elbow", Max(angles["elbow"] - stepSize, 0))
      [] command = "G" ->
           updateAngleDisplay(angles, "wrist", Min(angles["wrist"] + stepSize, 180))
      [] command = "H" ->
           updateAngleDisplay(angles, "wrist", Max(angles["wrist"] - stepSize, 0))
      [] command = "I" ->
           updateAngleDisplay(angles, "gripper", Min(angles["gripper"] + stepSize, 180))
      [] command = "J" ->
           updateAngleDisplay(angles, "gripper", Max(angles["gripper"] - stepSize, 0))
      [] OTHER -> angles

(* ---------------------------------------------------------------------- *)
(* Preset sequences                                                        *)
(* ---------------------------------------------------------------------- *)

RECURSIVE Repeat(_, _)
Repeat(cmd, count) ==
    IF count = 0 THEN << >> ELSE <<cmd>> \o Repeat(cmd, count - 1)

\* the inner loop left out: every step is sent once, whatever its count
ExpandOnce(sequence) == [i \in 1 .. Len(sequence) |-> sequence[i].cmd]

\* for (const step of sequence) for (i < step.count): the commands in the
\* order the two loops send them
RECURSIVE Expand(_)
Expand(sequence) ==
    IF sequence = << >> THEN << >>
    ELSE Repeat(sequence[1].cmd, sequence[1].count) \o Expand(Tail(sequence))

HomeCommands ==
    <<"B", "B", "B", "B", "B", "D", "D", "D", "D", "D",
      "F", "F", "F", "F", "F", "H", "H", "H", "H", "H",
      "J", "J", "J", "J", "J">>

GrabSequence ==
    << [cmd |-> "D", count |-> 3],
       [cmd |-> "E", count |-> 2],
       [cmd |-> "J", count |-> 5] >>

ReachSequence ==
    << [cmd |-> "C", count |-> 4],
       [cmd |-> "E", count |-> 3],
       [cmd |-> "G", count |-> 2],
       [cmd |-> "I", count |-> 3] >>

GrabCommands == Expand(GrabSequence)

ReachCommands == Expand(ReachSequence)

Presets == {"home", "grab", "reach", "reset"}

\* the commands a preset sends; resetAll awaits moveToHome
Commands(kind) ==
    CASE kind = "home"  -> HomeCommands
      [] kind = "reset" -> HomeCommands
      [] kind = "grab"  -> GrabCommands
      [] kind = "reach" -> ReachCommands

\* the last line a preset logs
ReachedLog(kind) ==
    CASE kind = "home"  -> "Reached HOME position"
      [] kind = "reset" -> "Reached HOME position"
      [] kind = "grab"  -> "Reached GRAB position"
      [] kind = "reach" -> "Reached REACH position"

\* the block that ends moveToHome restoring the initial angles, not 90
HomeResetToInitial(angles) == InitialAngles

\* the "Reset all angles to 90" block that ends moveToHome
HomeReset(angles) ==
    updateAngleDisplay(
      updateAngleDisplay(
        updateAngleDisplay(
          updateAngleDisplay(
            updateAngleDisplay(angles, "base", 90),
            "shoulder", 90),
          "elbow", 90),
        "wrist", 90),
      "gripper", 90)

\* what a preset does to the joint model after its loop
Finish(kind, angles) ==
    IF kind \in {"home", "reset"} THEN HomeReset(angles) ELSE angles

(* ---------------------------------------------------------------------- *)
(* State                                                                   *)
(* ---------------------------------------------------------------------- *)

VARIABLES
    device,            \* the four module-level handles
    server,
    service,
    rxCharacteristic,
    gattConnected,     \* device.gatt.connected: the link is up
    listening,         \* onDisconnected is registered on the device
    connPc,            \* the await connectDevice is suspended at, or "idle"
    uiEnabled,         \* the buttons' state updateUIState last set
    jointAngles,
    tasks,             \* the async calls started by user actions
    log,               \* the last entry addLog appended
    spent,             \* the part of Budget used up
    applied,           \* tokens applied so far (SpecApply)
    decs               \* decrements of base so far (SpecDec)

vars == <<device, server, service, rxCharacteristic, gattConnected, listening,
          connPc, uiEnabled, jointAngles, tasks, log, spent, applied,
          decs>>

connVars == <<device, server, service, rxCharacteristic, gattConnected,
              listening, connPc, uiEnabled>>

ghostVars == <<applied, decs>>

TaskIds == 1 .. Budget

\* a task record: the call (kind), where it is suspended (pc), the number of
\* the command of its loop it has reached (idx), the command being written
\* (cmd), and three history fields no code reads: a connection went down
\* under it (lost), one of its dispatches failed (failed), it was started
\* with device and rxCharacteristic set (born)
NoTask ==
    [kind |-> "none", pc |-> "idle", idx |-> 0, cmd |-> "-", lost |-> FALSE,
     failed |-> FALSE, born |-> FALSE]

\* the lowest slot that holds no running call
FreeSlot ==
    CHOOSE t \in TaskIds :
        tasks[t] = NoTask /\ \A u \in TaskIds : u < t => tasks[u] # NoTask

Spend(n) == spent + n <= Budget /\ spent' = spent + n

Entry(msg, arg) == [msg |-> msg, arg |-> arg]

(* ---------------------------------------------------------------------- *)
(* Initial state: the module's top level and the DOMContentLoaded handler  *)
(* ---------------------------------------------------------------------- *)

Init ==
    /\ device = FALSE
    /\ server = FALSE
    /\ service = FALSE
    /\ rxCharacteristic = FALSE
    /\ gattConnected = FALSE
    /\ listening = FALSE
    /\ connPc = "idle"
    /\ uiEnabled = FALSE
    /\ jointAngles = InitialAngles
    /\ tasks = [t \in TaskIds |-> NoTask]
    /\ log = Entry("Bluetooth API available", "")
    /\ spent = 0
    /\ applied = 0
    /\ decs = 0

(* ---------------------------------------------------------------------- *)
(* sendCommand                                                             *)
(* ---------------------------------------------------------------------- *)

\* the guard of sendCommand testing the device alone
SendGuardDeviceOnly == device

\* the guard that opens sendCommand, negated: the handles it needs are set
SendGuard == device /\ rxCharacteristic

\* the guard that opens the keydown listener, negated
KeyGuard == device /\ rxCharacteristic

\* a preset whose loop sets no timer after sendCommand has returned: the
\* promise it awaits is never resolved
AfterSendNoTimer(task) ==
    IF task.kind = "send" THEN NoTask ELSE [task EXCEPT !.pc = "idle"]

\* where a caller of sendCommand goes once sendCommand has returned: a joint
\* button's or key's handler ends, a preset starts its setTimeout
AfterSend(task) ==
    IF task.kind = "send" THEN NoTask ELSE [task EXCEPT !.pc = "timer"]

\* sendCommand has logged an error for the task: its dispatch failed
Failed(task) == [task EXCEPT !.failed = TRUE]

\* writeValue on a link that is down can only reject
WritePc == IF gattConnected THEN "write" ELSE "failing"

\* sendCommand with a limit check before the write: a command that would
\* not move its joint is dropped without a write
SendCommandSyncLimitChecked(t, task, command, callerLog) ==
    IF SendGuard
      THEN /\ tasks' = [tasks EXCEPT ![t] =
                          IF updateLocalAngle(jointAngles, command) = jointAngles
                            THEN AfterSend(task)
                            ELSE [task EXCEPT !.pc = WritePc, !.cmd = command]]
           /\ log' = callerLog
      ELSE /\ tasks' = [tasks EXCEPT ![t] = AfterSend(Failed(task))]
           /\ log' = Entry("Error: Device not connected", "")

\* sendCommand(command) up to its await, called by task t whose record is
\* `task`; callerLog is the last entry the caller logged before the call.
\* Not connected: the error is logged and sendCommand returns. Otherwise
\* writeValue is called and the task waits for it.
SendCommandSync(t, task, command, callerLog) ==
    IF SendGuard
      THEN /\ tasks' = [tasks EXCEPT ![t] = [task EXCEPT !.pc = WritePc,
                                                          !.cmd = command]]
           /\ log' = callerLog
      ELSE /\ tasks' = [tasks EXCEPT ![t] = AfterSend(Failed(task))]
           /\ log' = Entry("Error: Device not connected", "")

\* the rest of sendCommand after writeValue resolved
WriteResolve(t) ==
    /\ tasks[t].pc = "write"
    /\ log' = Entry("Sent command", tasks[t].cmd)
    /\ jointAngles' = updateLocalAngle(jointAngles, tasks[t].cmd)
    /\ tasks' = [tasks EXCEPT ![t] = AfterSend(tasks[t])]
    /\ UNCHANGED <<connVars, spent, ghostVars>>

\* sendCommand updating the local angle before the write is known to have
\* succeeded: a rejected write has moved the joint
WriteRejectApplied(t) ==
    /\ \/ tasks[t].pc = "failing" /\ UNCHANGED spent
       \/ tasks[t].pc = "write" /\ Spend(2)
    /\ log' = Entry("Error sending command", "")
    /\ jointAngles' = updateLocalAngle(jointAngles, tasks[t].cmd)
    /\ tasks' = [tasks EXCEPT ![t] = AfterSend(Failed(tasks[t]))]
    /\ UNCHANGED <<connVars, ghostVars>>

\* the catch block of sendCommand, after writeValue rejected
WriteReject(t) ==
    /\ \/ tasks[t].pc = "failing" /\ UNCHANGED spent
       \/ tasks[t].pc = "write" /\ Spend(2)
    /\ log' = Entry("Error sending command", "")
    /\ tasks' = [tasks EXCEPT ![t] = AfterSend(Failed(tasks[t]))]
    /\ UNCHANGED <<connVars, jointAngles, ghostVars>>

(* ---------------------------------------------------------------------- *)
(* User actions                                                            *)
(* ---------------------------------------------------------------------- *)

NewTask(kind) ==
    [NoTask EXCEPT !.kind = kind, !.born = device /\ rxCharacteristic]

\* click on a joint button (enabled buttons only fire click)
ClickJoint(command) ==
    /\ uiEnabled
    /\ Spend(2)
    /\ SendCommandSync(FreeSlot, NewTask("send"), command, log)
    /\ UNCHANGED <<connVars, jointAngles, ghostVars>>

\* keydown: when not connected or when the key is not in keyMap the
\* listener returns and nothing changes
KeyDown(key) ==
    /\ KeyGuard
    /\ key \in DOMAIN KeyMap
    /\ Spend(2)
    /\ SendCommandSync(FreeSlot, NewTask("send"), KeyMap[key], log)
    /\ UNCHANGED <<connVars, jointAngles, ghostVars>>

\* click on a preset button: moveToHome, moveToGrab, moveToReach or
\* resetAll up to the first await
ClickPreset(kind) ==
    /\ uiEnabled
    /\ Spend(2)
    /\ SendCommandSync(FreeSlot, [NewTask(kind) EXCEPT !.idx = 1],
                       Commands(kind)[1],
                       Entry(IF kind \in {"home", "reset"}
                               THEN "Moving to HOME position..."
                               ELSE IF kind = "grab"
                                 THEN "Moving to GRAB position..."
                                 ELSE "Moving to REACH position...", ""))
    /\ UNCHANGED <<connVars, jointAngles, ghostVars>>

\* the setTimeout of a preset's loop fires: the next command is sent, or
\* the loop is over and the preset ends
TimerFire(t) ==
    /\ tasks[t].pc = "timer"
    /\ IF tasks[t].idx < Len(Commands(tasks[t].kind))
         THEN /\ SendCommandSync(t, [tasks[t] EXCEPT !.idx = @ + 1],
                                 Commands(tasks[t].kind)[tasks[t].idx + 1], log)
              /\ UNCHANGED jointAngles
         ELSE /\ jointAngles' = Finish(tasks[t].kind, jointAngles)
              /\ log' = Entry(ReachedLog(tasks[t].kind), "")
              /\ tasks' = [tasks EXCEPT ![t] = NoTask]
    /\ UNCHANGED <<connVars, spent, ghostVars>>

(* ---------------------------------------------------------------------- *)
(* Connection                                                              *)
(* ---------------------------------------------------------------------- *)

\* isConnected of updateUIState, from the handles as they will be
IsConnectedUI(dev, srv) == dev /\ srv

\* click on the connect button (enabled while the buttons are disabled);
\* one connectDevice call at a time: the device chooser is open
ClickConnect ==
    /\ ~uiEnabled
    /\ connPc = "idle"
    /\ Spend(1)
    /\ connPc' = "requestDevice"
    /\ log' = Entry("Scanning for BLE devices...", "")
    /\ UNCHANGED <<device, server, service, rxCharacteristic, gattConnected,
                   listening, uiEnabled, jointAngles, tasks, ghostVars>>

\* requestDevice resolved; device.gatt.connect() is called
RequestDeviceResolve ==
    /\ connPc = "requestDevice"
    /\ device' = TRUE
    /\ connPc' = "connect"
    /\ log' = Entry("Found device", "")
    /\ UNCHANGED <<server, service, rxCharacteristic, gattConnected, listening,
                   uiEnabled, jointAngles, tasks, spent, ghostVars>>

\* gatt.connect() resolved: the link is up
GattConnectResolve ==
    /\ connPc = "connect"
    /\ server' = TRUE
    /\ gattConnected' = TRUE
    /\ connPc' = "getService"
    /\ log' = Entry("Connected to GATT server", "")
    /\ UNCHANGED <<device, service, rxCharacteristic, listening, uiEnabled,
                   jointAngles, tasks, spent, ghostVars>>

\* getPrimaryService resolved (a GATT request resolves on a live link only)
GetServiceResolve ==
    /\ connPc = "getService"
    /\ gattConnected
    /\ service' = TRUE
    /\ connPc' = "getChar"
    /\ log' = Entry("Found Nordic UART service", "")
    /\ UNCHANGED <<device, server, rxCharacteristic, gattConnected, listening,
                   uiEnabled, jointAngles, tasks, spent, ghostVars>>

\* getCharacteristic resolved: updateConnectionStatus(true), and the
\* disconnect listener is registered
GetCharResolve ==
    /\ connPc = "getChar"
    /\ gattConnected
    /\ rxCharacteristic' = TRUE
    /\ connPc' = "idle"
    /\ log' = Entry("Connected to BLE device", "")
    /\ uiEnabled' = IsConnectedUI(device, server)
    /\ listening' = TRUE
    /\ UNCHANGED <<device, server, service, gattConnected, jointAngles, tasks, spent, ghostVars>>

\* the catch block of connectDevice: the step awaited rejected (the chooser
\* was dismissed, the link could not be made or dropped, the service or
\* the characteristic is missing); updateConnectionStatus(false)
ConnectFailed ==
    /\ connPc # "idle"
    /\ connPc' = "idle"
    /\ log' = Entry("Disconnected from BLE device", "")
    /\ uiEnabled' = IsConnectedUI(device, server)
    /\ UNCHANGED <<device, server, service, rxCharacteristic, gattConnected,
                   listening, jointAngles, tasks, spent, ghostVars>>

\* the link goes down: every write in flight will reject, and every task
\* running on a connected controller (device and rxCharacteristic set) has
\* lost its connection
LinkDown(ts) ==
    [t \in TaskIds |->
        IF ts[t].pc \in {"write", "failing", "timer"}
          THEN [ts[t] EXCEPT !.pc = IF @ = "write" THEN "failing" ELSE @,
                             !.lost = @ \/ (device /\ rxCharacteristic)]
          ELSE ts[t]]

\* the gattserverdisconnected event: onDisconnected runs when registered
onDisconnected ==
    IF listening
      THEN /\ device' = FALSE
           /\ server' = FALSE
           /\ service' = FALSE
           /\ rxCharacteristic' = FALSE
           /\ uiEnabled' = IsConnectedUI(FALSE, FALSE)
      ELSE UNCHANGED <<device, server, service, rxCharacteristic, uiEnabled>>

\* the device drops the link (out of range, power)
LinkLost ==
    /\ gattConnected
    /\ Spend(1)
    /\ gattConnected' = FALSE
    /\ onDisconnected
    /\ log' = IF listening THEN Entry("Disconnected from BLE device", "") ELSE log
    /\ tasks' = LinkDown(tasks)
    /\ UNCHANGED <<listening, connPc, jointAngles, ghostVars>>

\* click on the disconnect button: disconnectDevice; gatt.disconnect()
\* fires gattserverdisconnected before it returns. With no device or no
\* link disconnectDevice does nothing.
ClickDisconnect ==
    /\ uiEnabled
    /\ device /\ gattConnected
    /\ Spend(1)
    /\ gattConnected' = FALSE
    /\ onDisconnected
    /\ log' = Entry("Disconnecting from device...", "")
    /\ tasks' = LinkDown(tasks)
    /\ UNCHANGED <<listening, connPc, jointAngles, ghostVars>>

(* ---------------------------------------------------------------------- *)
(* The controller                                                          *)
(* ---------------------------------------------------------------------- *)

Next ==
    \/ ClickConnect
    \/ RequestDeviceResolve
    \/ GattConnectResolve
    \/ GetServiceResolve
    \/ GetCharResolve
    \/ ConnectFailed
    \/ LinkLost
    \/ ClickDisconnect
    \/ \E c \in ButtonCommands : ClickJoint(c)
    \/ \E k \in Keys : KeyDown(k)
    \/ \E p \in Presets : ClickPreset(p)
    \/ \E t \in TaskIds : WriteResolve(t)
    \/ \E t \in TaskIds : WriteReject(t)
    \/ \E t \in TaskIds : TimerFire(t)

Spec == Init /\ [][Next]_vars

\* the controller with its event loop running: a timer that is set fires,
\* and a writeValue that was called resolves or rejects
Fairness ==
    \A t \in TaskIds :
        /\ WF_vars(TimerFire(t))
        /\ WF_vars(WriteResolve(t) \/ WriteReject(t))

SpecFair == Init /\ [][Next]_vars /\ Fairness

(* ---------------------------------------------------------------------- *)
(* The token table on its own: tokens applied to sampled configurations    *)
(* ---------------------------------------------------------------------- *)

\* the limits updateLocalAngle clamps each joint to
MinAngle(j) == IF j = "shoulder" THEN 120 ELSE 0

MaxAngle(j) == IF j = "shoulder" THEN 210 ELSE 180

\* the angles of joint j the sampled configurations take: multiples of the
\* step within its limits, near a limit or at the initial angle
Samples(j) ==
    {a \in MinAngle(j) .. MaxAngle(j) :
        /\ a % stepSize = 0
        /\ \/ a - MinAngle(j) <= Margin * stepSize
           \/ MaxAngle(j) - a <= Margin * stepSize
           \/ a = InitialAngles[j]}

\* a connected controller with nothing running, the joints at a sample
InitApply ==
    /\ device = TRUE
    /\ server = TRUE
    /\ service = TRUE
    /\ rxCharacteristic = TRUE
    /\ gattConnected = TRUE
    /\ listening = TRUE
    /\ connPc = "idle"
    /\ uiEnabled = TRUE
    /\ \E b \in Samples("base"), s \in Samples("shoulder"),
          e \in Samples("elbow"), w \in Samples("wrist"),
          g \in Samples("gripper") :
            jointAngles = [base |-> b, shoulder |-> s, elbow |-> e,
                           wrist |-> w, gripper |-> g]
    /\ tasks = [t \in TaskIds |-> NoTask]
    /\ log = Entry("Connected to BLE device", "")
    /\ spent = 0
    /\ applied = 0
    /\ decs = 0

\* a dispatch whose write succeeded, from the call to the end of
\* sendCommand: the entry logged and the token applied
Dispatched(command) ==
    /\ SendGuard
    /\ log' = Entry("Sent command", command)
    /\ jointAngles' = updateLocalAngle(jointAngles, command)
    /\ UNCHANGED <<connVars, tasks, spent>>

ApplyToken(command) ==
    /\ applied < MaxApply
    /\ applied' = applied + 1
    /\ Dispatched(command)
    /\ UNCHANGED decs

NextApply == \E c \in Tokens : ApplyToken(c)

SpecApply == InitApply /\ [][NextApply]_vars

\* base decremented again and again from 90
InitDec == InitApply /\ jointAngles["base"] = 90

DecrementBase ==
    /\ decs < MaxDecs
    /\ decs' = decs + 1
    /\ Dispatched("B")
    /\ UNCHANGED applied

NextDec == DecrementBase

SpecDec == InitDec /\ [][NextDec]_vars

(* ---------------------------------------------------------------------- *)
(* Properties                                                              *)
(* ---------------------------------------------------------------------- *)

\* the tasks whose writeValue has neither resolved nor rejected
InFlight == {t \in TaskIds : tasks[t].pc \in {"write", "failing"}}

\* the write of task t resolves or rejects in this step
Settles(t) ==
    /\ tasks[t].pc \in {"write", "failing"}
    /\ tasks'[t].pc \notin {"write", "failing"}

\* the preset runs that have not ended
Running == {t \in TaskIds : tasks[t].kind \in Presets}

\* the run of task t ends in this step
Ends(t) == tasks[t].kind \in Presets /\ tasks'[t] = NoTask

\* sendCommand is called in this step
Dispatching ==
    \/ \E c \in ButtonCommands : ClickJoint(c)
    \/ \E k \in Keys : KeyDown(k)
    \/ \E p \in Presets : ClickPreset(p)
    \/ \E t \in TaskIds :
          /\ tasks[t].pc = "timer"
          /\ tasks[t].idx < Len(Commands(tasks[t].kind))
          /\ TimerFire(t)

AllAt(angles, a) == \A j \in Joints : angles[j] = a

\* C1: at most one transport write is outstanding at any time.
C1_AtMostOneWrite == Cardinality(InFlight) <= 1

\* C2: a dispatch attempted while device or rxCharacteristic is absent logs
\* the not-connected error, starts no transport write and leaves every joint
\* angle unchanged.
C2_NotConnectedDispatch ==
    [][(~(device /\ rxCharacteristic) /\ Dispatching) =>
          /\ log'.msg = "Error: Device not connected"
          /\ InFlight' = InFlight
          /\ jointAngles' = jointAngles]_vars

\* a not-connected dispatch has just happened: by a preset that outlived its
\* connection, or by a button the UI left enabled
C2_Witness ==
    /\ log.msg = "Error: Device not connected"
    /\ ~(device /\ rxCharacteristic)

\* C3: when the write of a dispatched token rejects, the joint angles after
\* the step equal those before it; a step in which a write settles changes
\* the joint model only when the write succeeded.
C3_FailedWriteKeepsAngles ==
    [][\A t \in TaskIds : Settles(t) =>
          /\ log'.msg = "Error sending command" => jointAngles' = jointAngles
          /\ jointAngles' # jointAngles => log'.msg = "Sent command"]_vars

\* a write was rejected on a live link and no joint has moved
C3_Witness ==
    /\ log.msg = "Error sending command"
    /\ gattConnected
    /\ jointAngles = InitialAngles

\* C4: a Grab run during which the connection was lost never logs
\* "Reached GRAB position".
C4_GrabNotCompletedAfterDisconnect ==
    [][\A t \in TaskIds :
          (Ends(t) /\ tasks[t].kind = "grab" /\ tasks[t].lost) =>
              log'.msg # "Reached GRAB position"]_vars

\* C5: every joint angle lies within its bounds in every reachable state.
C5_AnglesInBounds ==
    \A j \in Joints :
        jointAngles[j] >= (IF j = "shoulder" THEN 120 ELSE 0)
        /\ jointAngles[j] <= (IF j = "shoulder" THEN 210 ELSE 180)

\* C6: the step that ends a Home run leaves all five joints at exactly 90.
C6_HomeEndsAt90 ==
    [][\A t \in TaskIds :
          (Ends(t) /\ tasks[t].kind = "home") => AllAt(jointAngles', 90)]_vars

\* a Home run has just ended
C6_Witness ==
    /\ log.msg = "Reached HOME position"
    /\ AllAt(jointAngles, 90)
    /\ Running = {}

\* C7: a dispatch of a token outside A..J starts no transport write.
C7_InvalidTokenNotWritten ==
    [][\A c \in ButtonCommands \ Tokens :
          ClickJoint(c) => InFlight' = InFlight]_vars

\* the joint and the direction the token table gives a token
TokenJoint(c) ==
    CASE c \in {"A", "B"} -> "base"
      [] c \in {"C", "D"} -> "shoulder"
      [] c \in {"E", "F"} -> "elbow"
      [] c \in {"G", "H"} -> "wrist"
      [] c \in {"I", "J"} -> "gripper"

TokenDelta(c) == IF c \in {"A", "C", "E", "G", "I"} THEN 10 ELSE -10

Clamp(v, lo, hi) == IF v < lo THEN lo ELSE IF v > hi THEN hi ELSE v

\* C8: applying a token sets the joint the table assigns to it to
\* clamp(current + 10 or current - 10, min, max) and leaves the other four
\* joints unchanged.
C8_TokenChangesItsJoint ==
    [][\A c \in Tokens :
          (applied' # applied /\ log'.arg = c) =>
              jointAngles' =
                [jointAngles EXCEPT ![TokenJoint(c)] =
                    Clamp(@ + TokenDelta(c),
                          MinAngle(TokenJoint(c)), MaxAngle(TokenJoint(c)))]]_vars

\* a decrement was applied to a shoulder at its lower limit, with the other
\* joints away from their initial angles
C8_Witness ==
    /\ applied > 0
    /\ log = Entry("Sent command", "D")
    /\ jointAngles["shoulder"] = 120
    /\ jointAngles["base"] = 180
    /\ jointAngles["gripper"] = 0

\* C9: after n successful decrements of base from 90, base is 90 - 10 n
\* while n < 9 and exactly 0 from the ninth decrement on.
C9_BaseSaturatesAtZero ==
    jointAngles["base"] = (IF decs >= 9 THEN 0 ELSE 90 - 10 * decs)

\* base was decremented again after it had reached 0
C9_Witness == decs > 9 /\ jointAngles["base"] = 0

\* C10: at most one preset sequence is running at any time.
C10_OnePresetRunning == Cardinality(Running) <= 1

\* task t, a preset run, calls sendCommand in this step
Dispatches(t) ==
    /\ tasks'[t].kind \in Presets
    /\ tasks'[t].idx # tasks[t].idx

\* C11: once a dispatch of a running preset has failed (not connected, or
\* the write rejected), that run dispatches no further token and does not
\* log its "Reached ..." entry.
C11_FailedPresetStops ==
    [][\A t \in TaskIds :
          (tasks[t].kind \in Presets /\ tasks[t].failed) =>
              /\ ~Dispatches(t)
              /\ ~(Ends(t) /\ log'.msg = ReachedLog(tasks[t].kind))]_vars

\* C12: every step that takes the controller from Connected to Disconnected
\* (the disconnect button or a loss of the link) leaves the joint model at
\* its initial values: base 90, shoulder 130, elbow 90, wrist 90, gripper 90.
C12_DisconnectResetsJoints ==
    [][(device /\ rxCharacteristic /\ ~device') =>
          jointAngles' = InitialAngles]_vars

\* C13: the step that ends a resetAll run leaves every joint at its initial
\* value: base 90, shoulder 130, elbow 90, wrist 90, gripper 90.
C13_ResetAllRestoresInitial ==
    [][\A t \in TaskIds :
          (Ends(t) /\ tasks[t].kind = "reset") =>
              jointAngles' = InitialAngles]_vars

\* the steps of Home as the claim reads its list: five tokens, five times
HomeSteps ==
    << [cmd |-> "B", count |-> 5],
       [cmd |-> "D", count |-> 5],
       [cmd |-> "F", count |-> 5],
       [cmd |-> "H", count |-> 5],
       [cmd |-> "J", count |-> 5] >>

\* the token at position k of a list of steps, each step standing for
\* count copies of its token
RECURSIVE TokenAt(_, _)
TokenAt(sequence, k) ==
    IF k <= sequence[1].count
      THEN sequence[1].cmd
      ELSE TokenAt(Tail(sequence), k - sequence[1].count)

\* the k-th token a preset lists
Listed(kind, k) ==
    TokenAt(CASE kind = "grab" -> GrabSequence
              [] kind = "reach" -> ReachSequence
              [] OTHER -> HomeSteps, k)

\* a writeValue of task t starts in this step
StartsWrite(t) ==
    /\ tasks'[t].pc \in {"write", "failing"}
    /\ tasks[t].pc \notin {"write", "failing"}

\* C14: a preset run sends its tokens in the order its list gives them, each
\* step repeated count times: its k-th dispatch sends the k-th listed token,
\* and it is made only when the write of the dispatch before has settled.
C14_PresetInOrder ==
    [][\A t \in TaskIds :
          /\ Dispatches(t) =>
                /\ tasks[t].pc \notin {"write", "failing"}
                /\ tasks'[t].idx = tasks[t].idx + 1
                /\ StartsWrite(t) =>
                      tasks'[t].cmd = Listed(tasks'[t].kind, tasks'[t].idx)
          /\ (tasks'[t].kind \in Presets /\ StartsWrite(t)) => Dispatches(t)]_vars

\* a Reach run whose four C's were written has started the write of its
\* first E
C14_Witness ==
    \E t \in TaskIds :
        /\ tasks[t].kind = "reach"
        /\ tasks[t].idx = 5
        /\ tasks[t].pc = "write"
        /\ tasks[t].cmd = "E"
        /\ ~tasks[t].failed
        /\ jointAngles["shoulder"] = 170

\* C15: a Home run one of whose dispatches failed ends without its final
\* reset: the step that ends it leaves the joint model as the successful
\* tokens made it, not overwritten with the home pose.
C15_HomeResetOnlyAfterSuccess ==
    [][\A t \in TaskIds :
          (Ends(t) /\ tasks[t].kind = "home" /\ tasks[t].failed) =>
              jointAngles' = jointAngles]_vars

\* C16: no step taken while device or rxCharacteristic is null changes the
\* joint model.
C16_NoChangeWhileNotConnected ==
    [][~(device /\ rxCharacteristic) => jointAngles' = jointAngles]_vars

\* C17: a preset run started on a connection that has since been lost never
\* starts a transport write: no write on a later connection comes from the
\* remaining steps of a run started before the disconnect.
C17_NoWriteOnLaterConnection ==
    [][\A t \in TaskIds :
          (tasks[t].kind \in Presets /\ tasks[t].born /\ tasks[t].lost) =>
              ~StartsWrite(t)]_vars

\* C18: whenever no connectDevice call is in progress the four handles are
\* all set or all null, so the condition that enables the buttons (device
\* and server) holds exactly when the condition sendCommand tests (device
\* and rxCharacteristic) holds.
C18_HandlesConsistent ==
    connPc = "idle" =>
        /\ server = device
        /\ service = device
        /\ rxCharacteristic = device
        /\ IsConnectedUI(device, server) = SendGuard

\* the joint of token c is at the limit c moves it towards
AtLimit(angles, c) ==
    angles[TokenJoint(c)] =
        (IF TokenDelta(c) > 0 THEN MaxAngle(TokenJoint(c))
                              ELSE MinAngle(TokenJoint(c)))

\* C19: a token dispatched by a connected controller while its joint is at
\* the limit in the token's direction is written to the transport all the
\* same, and when a write of such a token succeeds the joint model is left
\* unchanged, the joint at that limit.
C19_LimitTokenStillWritten ==
    [][\A t \in TaskIds :
          /\ (/\ SendGuard
              /\ Dispatches(t)
              /\ AtLimit(jointAngles,
                         Commands(tasks'[t].kind)[tasks'[t].idx])) =>
                StartsWrite(t)
          /\ (/\ tasks[t].pc = "write"
              /\ tasks[t].cmd \in Tokens
              /\ AtLimit(jointAngles, tasks[t].cmd)
              /\ Settles(t)
              /\ log'.msg = "Sent command") =>
                jointAngles' = jointAngles]_vars

\* the third D of a Grab run has been written: the second and the third
\* were dispatched with the shoulder at 120 already
C19_Witness ==
    /\ log = Entry("Sent command", "D")
    /\ jointAngles["shoulder"] = 120
    /\ \E t \in TaskIds :
          /\ tasks[t].kind = "grab"
          /\ tasks[t].idx = 3
          /\ tasks[t].pc = "timer"
          /\ ~tasks[t].failed

\* C20: every started preset run (Home, Grab, Reach, Reset) eventually ends,
\* provided every timer set fires and every write started resolves or
\* rejects, whatever disconnects, reconnects and failed sends happen
\* meanwhile.
C20_PresetTerminates ==
    \A t \in TaskIds : (tasks[t].kind \in Presets) ~> (tasks[t] = NoTask)

\* a Reach run has ended after the connection it was started on was closed
C20_Witness ==
    /\ log.msg = "Reached REACH position"
    /\ ~device
    /\ ~gattConnected
    /\ Running = {}

====
